---- MODULE Spec2Model ----
(***************************************************************************)
(* Model of matcha/track_point.py: the TrackPoint value object, its region *)
(* classification (_get_drift_direction) and its drift shift               *)
(* (shift_position_x).                                                     *)
(*                                                                         *)
(* position_x, t0 and the drift velocity are Python floats, and the model  *)
(* computes with them as Python does: a float is an IEEE-754 binary64      *)
(* value sign * man * 2^exp, and + and * round the exact result to 53      *)
(* significant bits, ties to even.  Only finite values of the normal       *)
(* range occur.  man is a natural number of any size, held as limbs.       *)
(* The other attributes are only stored, never computed with; their        *)
(* values are small integers.                                              *)
(*                                                                         *)
(* A Python value that may be None is a tuple: <<>> is None, <<v>> is v.   *)
(***************************************************************************)
EXTENDS Integers, Sequences, FiniteSets

None == <<>>
Some(v) == <<v>>

\* ---- bounds of the model ----
MaxShifts == 2

\* ---- natural numbers of any size: limbs base 2^15, least significant first,
\* ---- no most significant zero limb; <<>> is 0
BASE == 2^15
LimbBits == 15

RECURSIVE NatNorm(_)
NatNorm(a) ==
    IF a = <<>> THEN a
    ELSE IF a[Len(a)] = 0 THEN NatNorm(SubSeq(a, 1, Len(a) - 1))
    ELSE a

RECURSIVE NatAddC(_, _, _)
NatAddC(a, b, c) ==
    IF a = <<>> /\ b = <<>> THEN (IF c = 0 THEN <<>> ELSE <<c>>)
    ELSE LET x == IF a = <<>> THEN 0 ELSE Head(a)
             y == IF b = <<>> THEN 0 ELSE Head(b)
             s == x + y + c
         IN <<s % BASE>> \o NatAddC(IF a = <<>> THEN a ELSE Tail(a),
                                    IF b = <<>> THEN b ELSE Tail(b),
                                    s \div BASE)
NatAdd(a, b) == NatAddC(a, b, 0)

\* a - b for a >= b
RECURSIVE NatSubB(_, _, _)
NatSubB(a, b, borrow) ==
    IF a = <<>> THEN <<>>
    ELSE LET y == IF b = <<>> THEN 0 ELSE Head(b)
             d == Head(a) - y - borrow
         IN <<d % BASE>> \o NatSubB(Tail(a),
                                    IF b = <<>> THEN b ELSE Tail(b),
                                    IF d < 0 THEN 1 ELSE 0)
NatSub(a, b) == NatNorm(NatSubB(a, b, 0))

\* -1, 0 or 1 as a < b, a = b or a > b
RECURSIVE NatCmpFrom(_, _, _)
NatCmpFrom(a, b, i) ==
    IF i = 0 THEN 0
    ELSE IF a[i] < b[i] THEN -1
    ELSE IF a[i] > b[i] THEN 1
    ELSE NatCmpFrom(a, b, i - 1)
NatCmp(a, b) ==
    IF Len(a) < Len(b) THEN -1
    ELSE IF Len(a) > Len(b) THEN 1
    ELSE NatCmpFrom(a, b, Len(a))

\* a * k for a limb k
RECURSIVE NatMulLimbC(_, _, _)
NatMulLimbC(a, k, c) ==
    IF a = <<>> THEN (IF c = 0 THEN <<>> ELSE <<c>>)
    ELSE LET p == Head(a) * k + c
         IN <<p % BASE>> \o NatMulLimbC(Tail(a), k, p \div BASE)
NatMulLimb(a, k) == IF k = 0 THEN <<>> ELSE NatMulLimbC(a, k, 0)

NatShiftLimbs(a, n) == IF a = <<>> THEN a ELSE [i \in 1..n |-> 0] \o a

RECURSIVE NatMul(_, _)
NatMul(a, b) ==
    IF a = <<>> \/ b = <<>> THEN <<>>
    ELSE NatAdd(NatMulLimb(a, Head(b)), NatShiftLimbs(NatMul(a, Tail(b)), 1))

\* a * 2^k
NatShl(a, k) == NatShiftLimbs(NatMulLimb(a, 2^(k % LimbBits)), k \div LimbBits)

\* a \div k for a limb k > 0: long division from the most significant limb
RECURSIVE NatDivLimbR(_, _, _, _)
NatDivLimbR(a, k, i, r) ==
    IF i = 0 THEN <<>>
    ELSE LET n == r * BASE + a[i]
         IN NatDivLimbR(a, k, i - 1, n % k) \o <<n \div k>>
NatDivLimb(a, k) == NatNorm(NatDivLimbR(a, k, Len(a), 0))

\* a % k for a limb k > 0
RECURSIVE NatModLimbR(_, _, _, _)
NatModLimbR(a, k, i, r) ==
    IF i = 0 THEN r ELSE NatModLimbR(a, k, i - 1, (r * BASE + a[i]) % k)
NatModLimb(a, k) == NatModLimbR(a, k, Len(a), 0)

\* the natural number i >= 0
RECURSIVE NatOf(_)
NatOf(i) == IF i = 0 THEN <<>> ELSE <<i % BASE>> \o NatOf(i \div BASE)

\* a \div 2^k
NatShr(a, k) ==
    LET n == k \div LimbBits IN
    IF n >= Len(a) THEN <<>>
    ELSE NatDivLimb(SubSeq(a, n + 1, Len(a)), 2^(k % LimbBits))

\* a % 2^k
NatLowBits(a, k) ==
    LET n == k \div LimbBits IN
    IF n >= Len(a) THEN a
    ELSE NatNorm(SubSeq(a, 1, n) \o <<a[n + 1] % 2^(k % LimbBits)>>)

RECURSIVE LimbBitLen(_)
LimbBitLen(x) == IF x = 0 THEN 0 ELSE 1 + LimbBitLen(x \div 2)
NatBitLen(a) ==
    IF a = <<>> THEN 0 ELSE LimbBits * (Len(a) - 1) + LimbBitLen(a[Len(a)])

RECURSIVE LimbTrailingZeros(_)
LimbTrailingZeros(x) == IF x % 2 = 1 THEN 0 ELSE 1 + LimbTrailingZeros(x \div 2)
\* the number of trailing zero bits of a > 0
RECURSIVE NatTrailingZeros(_)
NatTrailingZeros(a) ==
    IF Head(a) = 0 THEN LimbBits + NatTrailingZeros(Tail(a))
    ELSE LimbTrailingZeros(Head(a))

NatIsOdd(a) == a # <<>> /\ Head(a) % 2 = 1

\* ---- Python floats ----
\* A float is sign * man * 2^exp with man odd, or man = 0 (and exp = 0) for
\* +0.0 and -0.0.  Precision is the width of a binary64 significand.
Precision == 53
Float(sign, man, exp) == [sign |-> sign, man |-> man, exp |-> exp]
FZero(sign) == Float(sign, <<>>, 0)
FIsZero(a) == a.man = <<>>

\* sign * n * 2^exp in lowest terms, not rounded
FNorm(sign, n, exp) ==
    IF n = <<>> THEN FZero(sign)
    ELSE LET tz == NatTrailingZeros(n)
         IN Float(sign, NatShr(n, tz), exp + tz)

\* sign * n * 2^exp rounded to the nearest float, ties to even
FRound(sign, n, exp) ==
    LET len == NatBitLen(n) IN
    IF len <= Precision THEN FNorm(sign, n, exp)
    ELSE LET r == len - Precision
             q == NatShr(n, r)
             rest == NatCmp(NatLowBits(n, r), NatShl(<<1>>, r - 1))
             up == rest > 0 \/ (rest = 0 /\ NatIsOdd(q))
         IN FNorm(sign, IF up THEN NatAdd(q, <<1>>) ELSE q, exp + r)

Min(x, y) == IF x <= y THEN x ELSE y

\* the exact sum and product of two floats, as sign * man * 2^exp with man
\* of any size
ExactSum(a, b) ==
    IF FIsZero(a) /\ FIsZero(b)
    THEN FZero(IF a.sign = -1 /\ b.sign = -1 THEN -1 ELSE 1)
    ELSE IF FIsZero(a) THEN b
    ELSE IF FIsZero(b) THEN a
    ELSE LET e == Min(a.exp, b.exp)
             x == NatShl(a.man, a.exp - e)
             y == NatShl(b.man, b.exp - e)
             c == NatCmp(x, y)
         IN IF a.sign = b.sign THEN FNorm(a.sign, NatAdd(x, y), e)
            ELSE IF c = 0 THEN FZero(1)
            ELSE IF c > 0 THEN FNorm(a.sign, NatSub(x, y), e)
            ELSE FNorm(b.sign, NatSub(y, x), e)
ExactProduct(a, b) ==
    IF FIsZero(a) \/ FIsZero(b) THEN FZero(a.sign * b.sign)
    ELSE FNorm(a.sign * b.sign, NatMul(a.man, b.man), a.exp + b.exp)

\* Python's a + b and a * b on floats
FAdd(a, b) == LET s == ExactSum(a, b) IN FRound(s.sign, s.man, s.exp)
FMul(a, b) == LET p == ExactProduct(a, b) IN FRound(p.sign, p.man, p.exp)

\* -1, 0 or 1 as a < b, a == b or a > b
FCmp(a, b) ==
    LET sa == IF FIsZero(a) THEN 0 ELSE a.sign
        sb == IF FIsZero(b) THEN 0 ELSE b.sign
    IN IF sa # sb THEN (IF sa < sb THEN -1 ELSE 1)
       ELSE IF sa = 0 THEN 0
       ELSE LET e == Min(a.exp, b.exp)
            IN sa * NatCmp(NatShl(a.man, a.exp - e), NatShl(b.man, b.exp - e))

\* float(i) for the int i in {-1, 1}
FromSign(i) == Float(i, <<1>>, 0)

\* the float a decimal literal denotes: n / 10^k for an integer n and
\* k in 0..4, rounded to the nearest float
FromDecimal(n, k) ==
    IF n = 0 THEN FZero(1)
    ELSE LET scaled == NatShl(NatOf(IF n < 0 THEN -n ELSE n), 70)
             q == NatDivLimb(scaled, 10^k)
             sticky == IF NatModLimb(scaled, 10^k) = 0 THEN <<>> ELSE <<1>>
         IN FRound(IF n < 0 THEN -1 ELSE 1,
                   NatAdd(NatShl(q, 1), sticky), -71)

\* ---- module constants ----
TPC_X_BOUNDS ==
    <<FromDecimal(-35849, 2), FromDecimal(-210215, 3), FromDecimal(-6194, 2),
      FromDecimal(6194, 2), FromDecimal(210215, 3), FromDecimal(35849, 2)>>

TPCRegion == <<"WestOfWW", "WW", "WE", "BetweenTPCs", "EW", "EE", "EastOfEE">>

\* ---- inputs ----
\* the distance from a float a # 0 to the next float away from zero
Ulp(a) == Float(1, <<1>>, NatBitLen(a.man) + a.exp - Precision)
\* every boundary, the floats next to it on both sides, the floats 0.001
\* away from it, and three points well inside each region
BoundarySet == {TPC_X_BOUNDS[i] : i \in 1..Len(TPC_X_BOUNDS)}
NextToBoundary ==
    {FAdd(b, Float(s, <<1>>, Ulp(b).exp)) : b \in BoundarySet, s \in {-1, 1}}
NearBoundary ==
    {FAdd(b, FromDecimal(s, 3)) : b \in BoundarySet, s \in {-1, 1}}
InteriorXs ==
    {FromDecimal(n, 1) :
        n \in {-9000, -4000, -3600, -3500, -3000, -2200, -2100, -1000, -700,
               -500, 0, 1, 500, 700, 1000, 2076, 2100, 2200, 3000, 3500,
               3600, 4000, 9000}}
ClassifyXs == BoundarySet \cup NextToBoundary \cup NearBoundary \cup InteriorXs
ShiftXs == {FromDecimal(-100, 0), FromDecimal(0, 0), FromDecimal(100, 0)}
\* the calls shift_position_x(t0, drift_velocity), as <<t0, drift_velocity>>;
\* 0.001 is no binary fraction, so that shifts by it round
ShiftT0s == {FromDecimal(-1, 0), FromDecimal(2, 0)}
ShiftCalls ==
    {<<FromDecimal(2, 0), FromDecimal(5, 1)>>,
     <<FromDecimal(1, 0), FromDecimal(1, 0)>>,
     <<FromDecimal(-1, 0), FromDecimal(1, 0)>>,
     <<FromDecimal(1, 0), FromDecimal(1, 3)>>}
ShiftVDrifts == {FromDecimal(5, 1)}
ApiXs == {FromDecimal(0, 0), FromDecimal(210, 0)}
ApiT0s == {FromDecimal(2, 0)}
ApiVs == {FromDecimal(5, 1)}
TrackIds == {1, 2}
FieldValues == {0, 1}
DriftDirections == {Some(1), Some(-1), None}

VARIABLES
    V_DRIFT,                 \* module global (line 3)
    drift_velocity_default,  \* default of shift_position_x's drift_velocity
    track_id, position_x, position_y, position_z,
    direction_x, direction_y, direction_z, drift_direction,
    call,                    \* the last call made and how it ended
    ctor_x,                  \* position_x passed to the constructor
    dd_written,              \* drift_direction setter used since construction
    start_x, shift_sum,      \* the current run of successful shifts: where
                             \* it started and the float sum, call by call,
                             \* of drift_velocity * t0
    run_exact,               \* no float operation of the run has rounded
    n_shifts                 \* successful shifts since position_x was written

fields == <<track_id, position_x, position_y, position_z,
            direction_x, direction_y, direction_z, drift_direction>>
history == <<ctor_x, dd_written, start_x, shift_sum, run_exact, n_shifts>>
vars == <<V_DRIFT, drift_velocity_default, fields, call, history>>

\* ---- pure functions ----

\* np.digitize(x, bins) with right=False on increasing bins: the index i
\* with bins[i-1] <= x < bins[i], 0-based, i.e. how many bins are <= x.
DigitizeRight(x, bins) ==
    Cardinality({i \in 1..Len(bins) : FCmp(bins[i], x) < 0})
Digitize(x, bins) ==
    Cardinality({i \in 1..Len(bins) : FCmp(bins[i], x) <= 0})

\* TPCRegion(value).name
RegionName(value) == TPCRegion[value + 1]

GetDriftDirectionSwapped(point_x) ==
    LET region == RegionName(Digitize(point_x, TPC_X_BOUNDS)) IN
    IF region = "WW" \/ region = "EE" THEN Some(1)
    ELSE IF region = "EW" \/ region = "WE" THEN Some(-1)
    ELSE None
GetDriftDirection(point_x) ==
    LET point_region == Digitize(point_x, TPC_X_BOUNDS)
        region == RegionName(point_region) IN
    IF region = "WW" \/ region = "EW" THEN Some(1)
    ELSE IF region = "EE" \/ region = "WE" THEN Some(-1)
    ELSE None

\* Python's a * b and a + b on float-or-None operands: None raises TypeError.
Ok(v) == [exc |-> "none", value |-> Some(v)]
TypeError == [exc |-> "TypeError", value |-> None]
PyMul(a, b) == IF a = None \/ b = None THEN TypeError ELSE Ok(FMul(a[1], b[1]))
PyAdd(a, b) == IF a = None \/ b = None THEN TypeError ELSE Ok(FAdd(a[1], b[1]))
\* the float operand an int operand of * is converted to; None stays None
PyFloat(i) == IF i = None THEN None ELSE Some(FromSign(i[1]))

\* position_x + drift_velocity * t0 * drift_direction, left to right
ShiftedXNoSign(x, drift_velocity, t0, dd) ==
    LET m1 == PyMul(drift_velocity, Some(t0)) IN
    IF m1.exc # "none" \/ dd = None THEN TypeError
    ELSE PyAdd(Some(x), m1.value)
ShiftedXAssign(x, drift_velocity, t0, dd) ==
    LET m1 == PyMul(drift_velocity, Some(t0)) IN
    IF m1.exc # "none" THEN m1
    ELSE PyMul(m1.value, PyFloat(dd))
ShiftedX(x, drift_velocity, t0, dd) ==
    LET m1 == PyMul(drift_velocity, Some(t0)) IN
    IF m1.exc # "none" THEN m1
    ELSE LET m2 == PyMul(m1.value, PyFloat(dd)) IN
         IF m2.exc # "none" THEN m2
         ELSE PyAdd(Some(x), m2.value)

\* the value of shift_position_x's drift_velocity parameter: the argument, or
\* the default bound when the def statement ran if the caller gives none
BindDriftVelocityFallback(dv_arg, default) ==
    IF dv_arg # None THEN dv_arg
    ELSE IF default # None THEN default
    ELSE Some(FromSign(1))
BindDriftVelocity(dv_arg, default) ==
    IF dv_arg = None THEN default ELSE dv_arg

\* ---- the record of a call ----
Call(op, t0, dv_arg, outcome) ==
    [op |-> op, t0 |-> t0, dv_arg |-> dv_arg, outcome |-> outcome]
Called(op) == Call(op, FZero(1), None, "ok")

\* a successful shift by drift_velocity * t0 * dd from x rounded nowhere,
\* nor did adding drift_velocity * t0 to sum
ShiftIsExact(x, sum, drift_velocity, t0, dd) ==
    LET product == FMul(drift_velocity, t0)
        term == FMul(product, FromSign(dd))
    IN /\ product = ExactProduct(drift_velocity, t0)
       /\ FAdd(x, term) = ExactSum(x, term)
       /\ FAdd(sum, product) = ExactSum(sum, product)

\* ---- construction ----
Constructed(tid, x, y, z, dx, dy, dz) ==
    /\ track_id = tid
    /\ position_x = x
    /\ position_y = y
    /\ position_z = z
    /\ direction_x = dx
    /\ direction_y = dy
    /\ direction_z = dz
    /\ drift_direction = GetDriftDirection(x)
    /\ call = Called("__init__")
    /\ ctor_x = x
    /\ dd_written = FALSE
    /\ start_x = x
    /\ shift_sum = FZero(1)
    /\ run_exact = TRUE
    /\ n_shifts = 0

ModuleLoaded ==
    /\ V_DRIFT = None
    /\ drift_velocity_default = V_DRIFT

\* the state after the module is loaded and one TrackPoint is constructed
InitWith(Tids, Xs, Fs) ==
    /\ ModuleLoaded
    /\ \E tid \in Tids, x \in Xs, y, z, dx, dy, dz \in Fs :
           Constructed(tid, x, y, z, dx, dy, dz)

\* a new TrackPoint replaces the one under observation
Construct(tid, x, y, z, dx, dy, dz) ==
    /\ track_id' = tid
    /\ position_x' = x
    /\ position_y' = y
    /\ position_z' = z
    /\ direction_x' = dx
    /\ direction_y' = dy
    /\ direction_z' = dz
    /\ drift_direction' = GetDriftDirection(x)
    /\ call' = Called("__init__")
    /\ ctor_x' = x
    /\ dd_written' = FALSE
    /\ start_x' = x
    /\ shift_sum' = FZero(1)
    /\ run_exact' = TRUE
    /\ n_shifts' = 0
    /\ UNCHANGED <<V_DRIFT, drift_velocity_default>>

\* ---- setters ----
SetTrackId(value) ==
    /\ track_id' = value
    /\ call' = Called("track_id")
    /\ UNCHANGED <<V_DRIFT, drift_velocity_default, position_x, position_y,
                   position_z, direction_x, direction_y, direction_z,
                   drift_direction, history>>

SetPositionXReclassify(value) ==
    /\ position_x' = value
    /\ drift_direction' = GetDriftDirection(value)
    /\ call' = Called("position_x")
    /\ start_x' = value
    /\ shift_sum' = FZero(1)
    /\ run_exact' = TRUE
    /\ n_shifts' = 0
    /\ UNCHANGED <<V_DRIFT, drift_velocity_default, track_id, position_y,
                   position_z, direction_x, direction_y, direction_z,
                   ctor_x, dd_written>>
SetPositionX(value) ==
    /\ position_x' = value
    /\ call' = Called("position_x")
    /\ start_x' = value
    /\ shift_sum' = FZero(1)
    /\ run_exact' = TRUE
    /\ n_shifts' = 0
    /\ UNCHANGED <<V_DRIFT, drift_velocity_default, track_id, position_y,
                   position_z, direction_x, direction_y, direction_z,
                   drift_direction, ctor_x, dd_written>>

SetPositionY(value) ==
    /\ position_y' = value
    /\ call' = Called("position_y")
    /\ UNCHANGED <<V_DRIFT, drift_velocity_default, track_id, position_x,
                   position_z, direction_x, direction_y, direction_z,
                   drift_direction, history>>

SetPositionZ(value) ==
    /\ position_z' = value
    /\ call' = Called("position_z")
    /\ UNCHANGED <<V_DRIFT, drift_velocity_default, track_id, position_x,
                   position_y, direction_x, direction_y, direction_z,
                   drift_direction, history>>

SetDirectionX(value) ==
    /\ direction_x' = value
    /\ call' = Called("direction_x")
    /\ UNCHANGED <<V_DRIFT, drift_velocity_default, track_id, position_x,
                   position_y, position_z, direction_y, direction_z,
                   drift_direction, history>>

SetDirectionY(value) ==
    /\ direction_y' = value
    /\ call' = Called("direction_y")
    /\ UNCHANGED <<V_DRIFT, drift_velocity_default, track_id, position_x,
                   position_y, position_z, direction_x, direction_z,
                   drift_direction, history>>

SetDirectionZ(value) ==
    /\ direction_z' = value
    /\ call' = Called("direction_z")
    /\ UNCHANGED <<V_DRIFT, drift_velocity_default, track_id, position_x,
                   position_y, position_z, direction_x, direction_y,
                   drift_direction, history>>

SetDriftDirection(value) ==
    /\ drift_direction' = value
    /\ call' = Called("drift_direction")
    /\ dd_written' = TRUE
    /\ start_x' = position_x
    /\ shift_sum' = FZero(1)
    /\ run_exact' = TRUE
    /\ UNCHANGED <<V_DRIFT, drift_velocity_default, track_id, position_x,
                   position_y, position_z, direction_x, direction_y,
                   direction_z, ctor_x, n_shifts>>

\* ---- the hosting application rebinds matcha.track_point.V_DRIFT ----
SetVDrift(value) ==
    /\ V_DRIFT' = Some(value)
    /\ call' = Called("V_DRIFT")
    /\ UNCHANGED <<drift_velocity_default, fields, history>>

\* ---- shift_position_x(t0[, drift_velocity]) ----
\* dv_arg is None when the caller omits drift_velocity.
ShiftPositionXReclassify(t0, dv_arg) ==
    LET drift_velocity == BindDriftVelocity(dv_arg, drift_velocity_default)
        shifted_x == ShiftedX(position_x, drift_velocity, t0, drift_direction)
    IN
    /\ n_shifts < MaxShifts
    /\ IF shifted_x.exc = "none"
       THEN /\ position_x' = shifted_x.value[1]
            /\ drift_direction' = GetDriftDirection(shifted_x.value[1])
            /\ call' = Call("shift_position_x", t0, dv_arg, "ok")
            /\ shift_sum' = FAdd(shift_sum, FMul(drift_velocity[1], t0))
            /\ run_exact' = (run_exact /\ ShiftIsExact(position_x, shift_sum,
                                 drift_velocity[1], t0, drift_direction[1]))
            /\ n_shifts' = n_shifts + 1
            /\ UNCHANGED start_x
       ELSE /\ call' = Call("shift_position_x", t0, dv_arg, shifted_x.exc)
            /\ UNCHANGED <<position_x, drift_direction, start_x, shift_sum,
                           run_exact, n_shifts>>
    /\ UNCHANGED <<V_DRIFT, drift_velocity_default, track_id, position_y,
                   position_z, direction_x, direction_y, direction_z,
                   ctor_x, dd_written>>
ShiftPositionXSkipNone(t0, dv_arg) ==
    LET drift_velocity == BindDriftVelocity(dv_arg, drift_velocity_default)
        shifted_x == ShiftedX(position_x, drift_velocity, t0, drift_direction)
    IN
    /\ n_shifts < MaxShifts
    /\ IF shifted_x.exc = "none"
       THEN /\ position_x' = shifted_x.value[1]
            /\ call' = Call("shift_position_x", t0, dv_arg, "ok")
            /\ shift_sum' = FAdd(shift_sum, FMul(drift_velocity[1], t0))
            /\ run_exact' = (run_exact /\ ShiftIsExact(position_x, shift_sum,
                                 drift_velocity[1], t0, drift_direction[1]))
            /\ n_shifts' = n_shifts + 1
            /\ UNCHANGED start_x
       ELSE /\ call' = Call("shift_position_x", t0, dv_arg,
                            IF drift_direction = None THEN "ok"
                            ELSE shifted_x.exc)
            /\ UNCHANGED <<position_x, start_x, shift_sum, run_exact,
                           n_shifts>>
    /\ UNCHANGED <<V_DRIFT, drift_velocity_default, track_id, position_y,
                   position_z, direction_x, direction_y, direction_z,
                   drift_direction, ctor_x, dd_written>>
ShiftPositionXEarlyWrite(t0, dv_arg) ==
    LET drift_velocity == BindDriftVelocity(dv_arg, drift_velocity_default)
        shifted_x == ShiftedX(position_x, drift_velocity, t0, drift_direction)
        partial == PyMul(drift_velocity, Some(t0))
    IN
    /\ n_shifts < MaxShifts
    /\ IF shifted_x.exc = "none"
       THEN /\ position_x' = shifted_x.value[1]
            /\ call' = Call("shift_position_x", t0, dv_arg, "ok")
            /\ shift_sum' = FAdd(shift_sum, FMul(drift_velocity[1], t0))
            /\ run_exact' = (run_exact /\ ShiftIsExact(position_x, shift_sum,
                                 drift_velocity[1], t0, drift_direction[1]))
            /\ n_shifts' = n_shifts + 1
            /\ UNCHANGED start_x
       ELSE /\ position_x' = IF partial.exc = "none"
                             THEN FAdd(position_x, partial.value[1])
                             ELSE FZero(1)
            /\ call' = Call("shift_position_x", t0, dv_arg, shifted_x.exc)
            /\ UNCHANGED <<start_x, shift_sum, run_exact, n_shifts>>
    /\ UNCHANGED <<V_DRIFT, drift_velocity_default, track_id, position_y,
                   position_z, direction_x, direction_y, direction_z,
                   drift_direction, ctor_x, dd_written>>
ShiftPositionX(t0, dv_arg) ==
    LET drift_velocity == BindDriftVelocity(dv_arg, drift_velocity_default)
        shifted_x == ShiftedX(position_x, drift_velocity, t0, drift_direction)
    IN
    /\ n_shifts < MaxShifts
    /\ IF shifted_x.exc = "none"
       THEN /\ position_x' = shifted_x.value[1]
            /\ call' = Call("shift_position_x", t0, dv_arg, "ok")
            /\ shift_sum' = FAdd(shift_sum, FMul(drift_velocity[1], t0))
            /\ run_exact' = (run_exact /\ ShiftIsExact(position_x, shift_sum,
                                 drift_velocity[1], t0, drift_direction[1]))
            /\ n_shifts' = n_shifts + 1
            /\ UNCHANGED start_x
       ELSE /\ call' = Call("shift_position_x", t0, dv_arg, shifted_x.exc)
            /\ UNCHANGED <<position_x, start_x, shift_sum, run_exact,
                           n_shifts>>
    /\ UNCHANGED <<V_DRIFT, drift_velocity_default, track_id, position_y,
                   position_z, direction_x, direction_y, direction_z,
                   drift_direction, ctor_x, dd_written>>

\* ---- every method of TrackPoint, on small inputs ----
Init == InitWith(TrackIds, ApiXs, FieldValues)

Next ==
    \/ \E value \in TrackIds : SetTrackId(value)
    \/ \E value \in ApiXs : SetPositionX(value)
    \/ \E value \in FieldValues : SetPositionY(value)
    \/ \E value \in FieldValues : SetPositionZ(value)
    \/ \E value \in FieldValues : SetDirectionX(value)
    \/ \E value \in FieldValues : SetDirectionY(value)
    \/ \E value \in FieldValues : SetDirectionZ(value)
    \/ \E value \in DriftDirections : SetDriftDirection(value)
    \/ \E t0 \in ApiT0s, dv_arg \in {None} \cup {Some(v) : v \in ApiVs} :
           ShiftPositionX(t0, dv_arg)

Spec == Init /\ [][Next]_vars

\* ---- the shift on richer inputs, the other six attributes left alone ----
InitShift == InitWith({1}, ShiftXs, {0})

NextShift ==
    \/ \E value \in ShiftXs : SetPositionX(value)
    \/ \E value \in DriftDirections : SetDriftDirection(value)
    \/ \E value \in ShiftVDrifts : SetVDrift(value)
    \/ \E c \in ShiftCalls : ShiftPositionX(c[1], Some(c[2]))
    \/ \E t0 \in ShiftT0s : ShiftPositionX(t0, None)

SpecShift == InitShift /\ [][NextShift]_vars

\* ---- construction alone, on every boundary and region ----
InitClassify == InitWith(TrackIds, ClassifyXs, {0})

NextClassify ==
    \E tid \in TrackIds, x \in ClassifyXs, y \in FieldValues :
        Construct(tid, x, y, 0, 0, 0, 0)

SpecClassify == InitClassify /\ [][NextClassify]_vars

\* ======================= claims =======================
Active == {Some(1), Some(-1)}
ShiftCalled == call.op = "shift_position_x"
ShiftStep == call'.op = "shift_position_x"
\* the six boundaries as the spec lists them, in cm
Boundary == [i \in 1..6 |->
                FromDecimal(<<-358490, -210215, -61940,
                              61940, 210215, 358490>>[i], 3)]
Less(a, b) == FCmp(a, b) < 0
Between(lo, x, hi) == Less(lo, x) /\ Less(x, hi)
\* Python's a == b on floats
Equal(a, b) == FCmp(a, b) = 0

\* C1: a TrackPoint constructed strictly inside one of the seven intervals has
\* drift_direction +1 in (-358.49, -210.215) and (61.94, 210.215), -1 in
\* (-210.215, -61.94) and (210.215, 358.49), and None below -358.49, in
\* (-61.94, 61.94) and above 358.49.
C1_InteriorDriftDirection ==
    call.op = "__init__" =>
        /\ (Between(Boundary[1], position_x, Boundary[2])
              \/ Between(Boundary[4], position_x, Boundary[5]))
           => drift_direction = Some(1)
        /\ (Between(Boundary[2], position_x, Boundary[3])
              \/ Between(Boundary[5], position_x, Boundary[6]))
           => drift_direction = Some(-1)
        /\ (Less(position_x, Boundary[1])
              \/ Between(Boundary[3], position_x, Boundary[4])
              \/ Less(Boundary[6], position_x))
           => drift_direction = None

\* constructed on the last float below 210.215
C1_Witness ==
    /\ call.op = "__init__"
    /\ Less(position_x, Boundary[5])
    /\ FAdd(position_x, Ulp(position_x)) = Boundary[5]
    /\ drift_direction = Some(1)

\* C2: classification is left-inclusive: a TrackPoint constructed exactly on
\* the i-th boundary falls in the region that begins there (i boundaries are
\* <= x), so drift_direction is +1 on -358.49 and 61.94, -1 on -210.215 and
\* 210.215, None on -61.94 and 358.49.
C2_BoundaryLeftInclusive ==
    call.op = "__init__" =>
        /\ (Equal(position_x, Boundary[1]) \/ Equal(position_x, Boundary[4]))
           => drift_direction = Some(1)
        /\ (Equal(position_x, Boundary[2]) \/ Equal(position_x, Boundary[5]))
           => drift_direction = Some(-1)
        /\ (Equal(position_x, Boundary[3]) \/ Equal(position_x, Boundary[6]))
           => drift_direction = None

C2_Witness ==
    /\ call.op = "__init__"
    /\ position_x = Boundary[5]
    /\ drift_direction = Some(-1)

\* C3: with drift_direction d = +1 or -1, shift_position_x(t0, drift_velocity)
\* with a supplied velocity and any t0 (negative too) completes and sets
\* position_x to the float position_x + drift_velocity * t0 * d.
C3_ShiftFormula ==
    [][(ShiftStep /\ call'.dv_arg # None /\ drift_direction \in Active) =>
           /\ call'.outcome = "ok"
           /\ position_x' =
                  FAdd(position_x,
                       FMul(FMul(call'.dv_arg[1], call'.t0),
                            FromSign(drift_direction[1])))]_vars

\* 100.0 shifted with t0 = 2.0, drift_velocity = 0.5, d = -1 is 99.0
C3_Witness ==
    /\ ShiftCalled
    /\ call.outcome = "ok"
    /\ call.t0 = FromDecimal(2, 0)
    /\ call.dv_arg = Some(FromDecimal(5, 1))
    /\ drift_direction = Some(-1)
    /\ n_shifts = 1
    /\ start_x = FromDecimal(100, 0)
    /\ position_x = FromDecimal(99, 0)

\* C4: shift_position_x on a point whose drift_direction is None ends in an
\* error for every t0 and drift_velocity; it never completes normally, and it
\* writes no new position_x.
C4_ShiftWithoutDirectionFails ==
    [][(ShiftStep /\ drift_direction = None) =>
           /\ call'.outcome = "TypeError"
           /\ position_x' = position_x]_vars

C4_Witness ==
    /\ ShiftCalled
    /\ call.outcome = "TypeError"
    /\ call.dv_arg = Some(FromDecimal(1, 0))
    /\ call.t0 = FromDecimal(-1, 0)
    /\ drift_direction = None
    /\ dd_written

\* C5: while the module-wide V_DRIFT is None, shift_position_x(t0) without a
\* drift_velocity ends in an error at that call, for every t0 and every
\* drift_direction; no substitute velocity is used.
C5_ShiftWithoutVelocityFails ==
    [][(ShiftStep /\ call'.dv_arg = None /\ V_DRIFT = None) =>
           /\ call'.outcome = "TypeError"
           /\ position_x' = position_x]_vars

C5_Witness ==
    /\ ShiftCalled
    /\ call.dv_arg = None
    /\ call.outcome = "TypeError"
    /\ V_DRIFT = None
    /\ drift_direction = Some(1)

\* C6: once the hosting application has set the module-wide V_DRIFT to v, a
\* shift_position_x(t0) that omits drift_velocity on a point with
\* drift_direction d = +1 or -1 sets position_x to position_x + v * t0 * d.
C6_ModuleDefaultUsed ==
    [][(ShiftStep /\ call'.dv_arg = None /\ V_DRIFT # None
          /\ drift_direction \in Active) =>
           /\ call'.outcome = "ok"
           /\ position_x' =
                  FAdd(position_x,
                       FMul(FMul(V_DRIFT[1], call'.t0),
                            FromSign(drift_direction[1])))]_vars

\* C7: a successful shift_position_x changes position_x only; track_id,
\* position_y, position_z, the direction and drift_direction keep their
\* values, drift_direction also when the new position_x is in another region.
C7_ShiftChangesPositionXOnly ==
    [][(ShiftStep /\ call'.outcome = "ok") =>
           UNCHANGED <<track_id, position_y, position_z, direction_x,
                       direction_y, direction_z, drift_direction>>]_vars

\* 210.0 shifted across the boundary 210.215
C7_Witness ==
    /\ ShiftCalled
    /\ call.outcome = "ok"
    /\ ~dd_written
    /\ drift_direction = Some(1)
    /\ GetDriftDirection(start_x) = Some(1)
    /\ GetDriftDirection(position_x) = Some(-1)

\* C8, as stated: after any run of successful shifts (t_i, v_i) under an
\* unchanged drift_direction d = +1 or -1, position_x equals the position the
\* run started from plus d times the sum of v_i * t_i.
C8_ShiftsComposeAdditively ==
    drift_direction \in Active =>
        Equal(position_x,
              FAdd(start_x, FMul(FromSign(drift_direction[1]), shift_sum)))

\* C8, amended: the same equality holds after every run in which no float
\* operation rounds (each v_i * t_i, each partial sum of them and each new
\* position_x is exact); each call starts from the already shifted
\* position_x.
C8_ExactShiftsComposeAdditively ==
    (drift_direction \in Active /\ run_exact) =>
        Equal(position_x,
              FAdd(start_x, FMul(FromSign(drift_direction[1]), shift_sum)))

\* two shifts with t0 = 1.0, drift_velocity = 1.0, d = +1 from 0.0 give 2.0
C8_Witness ==
    /\ ShiftCalled
    /\ call.outcome = "ok"
    /\ call.t0 = FromDecimal(1, 0)
    /\ call.dv_arg = Some(FromDecimal(1, 0))
    /\ drift_direction = Some(1)
    /\ run_exact
    /\ n_shifts = 2
    /\ start_x = FromDecimal(0, 0)
    /\ shift_sum = FromDecimal(2, 0)
    /\ position_x = FromDecimal(2, 0)

\* C9: drift_direction is derived once, at construction, from the
\* constructor's position_x: until the drift_direction setter is used it
\* equals that value, whatever is written to the other attributes and
\* whatever is shifted; each setter changes its own attribute only, and only
\* the drift_direction setter changes drift_direction.
C9_Attribute(op) ==
    CASE op = "track_id" -> track_id
      [] op = "position_x" -> position_x
      [] op = "position_y" -> position_y
      [] op = "position_z" -> position_z
      [] op = "direction_x" -> direction_x
      [] op = "direction_y" -> direction_y
      [] op = "direction_z" -> direction_z
      [] op = "drift_direction" -> drift_direction
C9_AttributeNext(op) ==
    CASE op = "track_id" -> track_id'
      [] op = "position_x" -> position_x'
      [] op = "position_y" -> position_y'
      [] op = "position_z" -> position_z'
      [] op = "direction_x" -> direction_x'
      [] op = "direction_y" -> direction_y'
      [] op = "direction_z" -> direction_z'
      [] op = "drift_direction" -> drift_direction'
C9_Attributes ==
    {"track_id", "position_x", "position_y", "position_z", "direction_x",
     "direction_y", "direction_z", "drift_direction"}
C9_DriftDirectionDerivedOnce ==
    /\ [](~dd_written => drift_direction = GetDriftDirection(ctor_x))
    /\ [][/\ call'.op \in C9_Attributes =>
                \A a \in C9_Attributes \ {call'.op} :
                    C9_AttributeNext(a) = C9_Attribute(a)
          /\ drift_direction' # drift_direction =>
                call'.op = "drift_direction"]_vars

\* constructed at 210.0, then position_x written to 0.0
C9_Witness ==
    /\ call.op = "position_x"
    /\ ~dd_written
    /\ ctor_x = FromDecimal(210, 0)
    /\ position_x = FromDecimal(0, 0)
    /\ drift_direction = Some(1)
    /\ GetDriftDirection(position_x) = None

\* C10: a shift_position_x that fails leaves the TrackPoint as it was:
\* position_x and the seven other attributes are unchanged, so a later shift
\* starts from the position the failed call found.
C10_FailedShiftChangesNothing ==
    [][(ShiftStep /\ call'.outcome # "ok") => UNCHANGED fields]_vars

\* a shift without velocity fails after 210.0 was shifted to 211.0
C10_Witness ==
    /\ ShiftCalled
    /\ call.outcome = "TypeError"
    /\ call.dv_arg = None
    /\ drift_direction = Some(1)
    /\ n_shifts = 1
    /\ start_x = FromDecimal(210, 0)
    /\ position_x = FromDecimal(211, 0)

====
